---- MODULE Spec2Model ----
(***************************************************************************)
(* Research Topic Explorer: the Flask handler index() of app.py and the    *)
(* ResearchExplorerCrew of crew.py (agents, build_crew, run), with the     *)
(* agent-execution engine behind crew.kickoff() as the environment.        *)
(*                                                                         *)
(* Text is a sequence of pieces.  A piece is " " (one space), "\n" (one    *)
(* line break) or a chunk: a run of literal text of the source that holds  *)
(* no line break and starts and ends with a non-blank character, so that   *)
(* strip() and dedent() treat it as they treat one non-blank character.    *)
(* The en dashes of the source's literals are written "-" in the chunks.   *)
(***************************************************************************)
EXTENDS Integers, Sequences, FiniteSets, TLC

\* ------------------------------------------------------------------ bounds
MaxLen == 3
MaxCalls == 2
MaxInstrLen == 1
MaxFormLen == 2
MaxOut == 2
NumReq == 2

\* ------------------------------------------------------------------- text
SP == " "
NL == "\n"

IsBlank(c) == c = SP \/ c = NL

RECURSIVE Spaces(_)
Spaces(n) == IF n = 0 THEN <<>> ELSE <<SP>> \o Spaces(n - 1)

\* Every sequence over alphabet of length at most n.
RECURSIVE TextsUpTo(_, _)
TextsUpTo(alphabet, n) ==
    IF n = 0 THEN {<<>>}
    ELSE LET shorter == TextsUpTo(alphabet, n - 1)
         IN  shorter \cup {Append(s, c) : s \in shorter, c \in alphabet}

\* Whether needle occurs in hay as a contiguous run (Python's `needle in hay`).
Contains(hay, needle) ==
    \E k \in 0..(Len(hay) - Len(needle)) :
        \A i \in 1..Len(needle) : hay[k + i] = needle[i]

\* str.strip(): leading and trailing whitespace removed.
RECURSIVE LStrip(_)
LStrip(s) == IF s # <<>> /\ IsBlank(Head(s)) THEN LStrip(Tail(s)) ELSE s

RECURSIVE RStrip(_)
RStrip(s) ==
    IF s # <<>> /\ IsBlank(s[Len(s)]) THEN RStrip(SubSeq(s, 1, Len(s) - 1)) ELSE s

Strip(s) == RStrip(LStrip(s))

\* textwrap.dedent(): lines of blanks only become empty, then the leading
\* spaces common to the lines that hold text are removed from every line.
RECURSIVE SplitLines(_)
SplitLines(s) ==
    IF \A i \in 1..Len(s) : s[i] # NL THEN <<s>>
    ELSE LET k == CHOOSE i \in 1..Len(s) :
                      s[i] = NL /\ \A j \in 1..(i - 1) : s[j] # NL
         IN  <<SubSeq(s, 1, k - 1)>> \o SplitLines(SubSeq(s, k + 1, Len(s)))

RECURSIVE JoinLines(_)
JoinLines(ls) ==
    IF Len(ls) = 1 THEN ls[1] ELSE ls[1] \o <<NL>> \o JoinLines(Tail(ls))

AllSpace(line) == \A i \in 1..Len(line) : line[i] = SP

RECURSIVE LeadingSpaces(_)
LeadingSpaces(line) ==
    IF line # <<>> /\ Head(line) = SP THEN 1 + LeadingSpaces(Tail(line)) ELSE 0

Margin(ls) ==
    LET indents == {LeadingSpaces(ls[i]) : i \in {j \in 1..Len(ls) : ~AllSpace(ls[j])}}
    IN  IF indents = {} THEN 0
        ELSE CHOOSE m \in indents : \A n \in indents : m <= n

Dedent(s) ==
    LET ls == SplitLines(s)
        m  == Margin(ls)
    IN  JoinLines([i \in 1..Len(ls) |->
            IF AllSpace(ls[i]) THEN <<>> ELSE SubSeq(ls[i], m + 1, Len(ls[i]))])

\* The indentation of the lines of every triple-quoted literal of crew.py.
Indent == 16
Ind == Spaces(Indent)

\* ----------------------------------------------------------------- agents
\* The module-level LLM configuration every agent is bound to.
llm == [model |-> "gemini/gemini-2.0-flash", temperature |-> "0.4", use_native |-> FALSE]

Agent(role, goal, backstory) ==
    [kind |-> "Agent", role |-> role, goal |-> goal, backstory |-> backstory,
     llm |-> llm, verbose |-> TRUE, allow_delegation |-> FALSE]

topic_decomposer ==
    Agent("Topic Decomposer",
          "Break a broad research topic into 4-6 meaningful subtopics or questions that a student should explore.",
          Dedent(<<NL>> \o Ind \o <<"You are an academic mentor who helps students break down complex", NL>>
                 \o Ind \o <<"research topics into smaller, understandable parts.", NL>> \o Ind))

info_collector ==
    Agent("Information Collector",
          "For each subtopic, gather clear explanations, key methods, pros/cons.",
          Dedent(<<NL>> \o Ind
                 \o <<"You are a research assistant for a student and summarize research concepts.", NL>>
                 \o Ind))

report_writer ==
    Agent("Report Writer",
          "Combine all collected information into a mini research report.",
          Dedent(<<NL>> \o Ind
                 \o <<"You write exam-ready mini project reports for B.Tech students.", NL>> \o Ind))

presentation_agent ==
    Agent("Presentation Designer",
          "Convert the written report into slide-wise bullet points for a short technical presentation.",
          Dedent(<<NL>> \o Ind \o <<"You create clean and clear technical PPT outlines.", NL>> \o Ind))

ppt_content_agent ==
    Agent("PPT Content Writer",
          "Expand the PPT outline into full slide content for a presentation session.",
          Dedent(<<NL>> \o Ind
                 \o <<"You create complete slide text based on a PPT outline - including", NL>>
                 \o Ind \o <<"slide headings, explanations, bullet points, examples, and notes.", NL>>
                 \o Ind))

\* ResearchExplorerCrew.__init__: the five agents, in the order constructed.
NewAgents ==
    <<topic_decomposer, info_collector, report_writer, presentation_agent, ppt_content_agent>>

\* ------------------------------------------------------------------ tasks
\* A task refers to its agent and to its context tasks by object id; its
\* output is <<>> until the engine has executed it.
Task(description, expected_output, agent, context) ==
    [kind |-> "Task", description |-> description, expected_output |-> expected_output,
     agent |-> agent, context |-> context, output |-> <<>>]

extra_note(instructions) ==
    IF Strip(instructions) # <<>> THEN Strip(instructions) ELSE <<"No extra instructions.">>

\* A variant that trims the topic before embedding it.
topic_description_trimmed(topic, note) ==
    Dedent(<<NL>> \o Ind \o <<"Break the topic \"">> \o Strip(topic)
           \o <<"\" into 4-6 subtopics with explanations.", NL, NL>>
           \o Ind \o <<"# Topic Decomposition", NL>> \o Ind)

topic_description(topic, note) ==
    Dedent(<<NL>> \o Ind \o <<"Break the topic \"">> \o topic
           \o <<"\" into 4-6 subtopics with explanations.", NL, NL>>
           \o Ind \o <<"# Topic Decomposition", NL>> \o Ind)

\* A variant that threads the instructions note into the description.
info_description_noted(topic, note) ==
    Dedent(<<NL>> \o Ind
           \o <<"Using 'Topic Decomposition', provide definitions, methods, pros/cons.", NL>>
           \o Ind \o <<"# Collected Information", NL>>
           \o Ind \o <<"Extra instructions:", SP>> \o note \o <<NL>> \o Ind)

info_description(topic, note) ==
    Dedent(<<NL>> \o Ind
           \o <<"Using 'Topic Decomposition', provide definitions, methods, pros/cons.", NL>>
           \o Ind \o <<"# Collected Information", NL>> \o Ind)

report_description(topic, note) ==
    Dedent(<<NL>> \o Ind \o <<"Write a complete mini-report for the topic: \"">> \o topic
           \o <<"\".", NL>> \o Ind)

ppt_outline_description(topic, note) ==
    Dedent(<<NL>> \o Ind
           \o <<"Convert the full mini-report into a slide-wise outline", SP, NL>>
           \o Ind \o <<"(8-10 slides) with titles and bullet points.", NL, NL>>
           \o Ind \o <<"Format:", NL>>
           \o Ind \o <<"# Presentation Outline", NL>>
           \o Ind \o <<"## Slide 1: ...", NL>>
           \o Ind \o <<"- Bullet 1", NL>>
           \o Ind \o <<"- Bullet 2", NL>> \o Ind)

ppt_content_description(topic, note) ==
    Dedent(<<NL>> \o Ind
           \o <<"Using the 'Presentation Outline', expand each slide into complete content.", NL, NL>>
           \o Ind \o <<"Format:", NL>>
           \o Ind \o <<"# Full PPT Content", NL, NL>>
           \o Ind \o <<"## Slide 1: <Title>", NL>>
           \o Ind \o <<"- Full sentences explaining the slide", NL>>
           \o Ind \o <<"- Bullet points with meaningful descriptions", NL>>
           \o Ind \o <<"- Notes for presenter (if needed)", NL, NL>>
           \o Ind \o <<"## Slide 2: <Title>", NL>>
           \o Ind \o <<"- ...", NL, NL>>
           \o Ind \o <<"Ensure content is clear, student-friendly, and presentation-ready.", NL>>
           \o Ind)

\* The context lists of the five tasks, as positions in the order the tasks
\* are defined in build_crew (topic, info, report, ppt_outline, ppt_content).
\* A variant in which the collection task takes the report as its context.
TaskContextsForward == <<(<<>>), <<3>>, <<1, 2>>, <<3>>, <<4, 3>>>>

TaskContexts == <<(<<>>), <<1>>, <<1, 2>>, <<3>>, <<4, 3>>>>

\* The order of the list handed to Crew(tasks=[...]), as positions in the
\* order the tasks are defined.
\* A variant that lists the report task before the collection task.
CrewTaskOrderSwapped == <<1, 3, 2, 4, 5>>

CrewTaskOrder == <<1, 2, 3, 4, 5>>

\* build_crew(self, topic, instructions): self holds the ids of the five
\* agents, tids the ids of the five Task objects it creates.  The result is
\* the five Task objects in the order defined and the Crew object.
build_crew(self, topic, instructions, tids) ==
    LET note == extra_note(instructions)
        ctx(i) == [k \in 1..Len(TaskContexts[i]) |-> tids[TaskContexts[i][k]]]
    IN  [tasks |-> <<
            Task(topic_description(topic, note),
                 "A list of 4-6 subtopics with a short (1-2 sentence) explanation for each, in markdown.",
                 self[1], ctx(1)),
            Task(info_description(topic, note),
                 "For each subtopic, provide a definition, key methods, and pros/cons in structured markdown (subheadings).",
                 self[2], ctx(2)),
            Task(report_description(topic, note),
                 "A cohesive mini-report in markdown: introduction, sections for each subtopic, methods, pros/cons, conclusion, and references.",
                 self[3], ctx(3)),
            Task(ppt_outline_description(topic, note),
                 "An 8-10 slide outline in markdown with slide titles and 3-5 bullet points per slide.",
                 self[4], ctx(4)),
            Task(ppt_content_description(topic, note),
                 "Full slide content for each slide: title, paragraph explanation, bullet details, and optional presenter notes in markdown.",
                 self[5], ctx(5)) >>,
         crew |-> [kind |-> "Crew", tasks |-> [k \in 1..Len(CrewTaskOrder) |-> tids[CrewTaskOrder[k]]]]]

\* ------------------------------------------------------------------ state
VARIABLES
    forms,        \* the form submissions the clients may POST
    variants,     \* the variants of answer the hosted model may give
    pc,           \* per client: where its request is in index()
    method,       \* per client: request.method of its last request ("": none yet)
    form,         \* per client: request.form of the request in flight
    topic,        \* per client: index()'s local topic
    extra_instructions, \* per client: index()'s local extra_instructions
    crew,         \* per client: index()'s local crew, as the ids of its five agents
    chain,        \* per client: run()'s local crew, the id of the Crew object (0: none)
    eng,          \* per client: the engine's position in the chain
    result,       \* per client: index()'s local result (<<>>: not assigned)
    response,     \* per client: the HTTP response of its last request
    flashed,      \* per client: what the request flashed
    heap,         \* the live Agent, Task and Crew objects, by object id
    runs,         \* per client: how often the request invoked run()
    trace,        \* per client: the engine's record of the tasks it executed
    arg_topic,    \* the topic build_crew is applied to on its own
    built         \* the chains built from arg_topic, by instructions

vars == <<forms, variants, pc, method, form, topic, extra_instructions, crew, chain, eng,
          result, response, flashed, heap, runs, trace, arg_topic, built>>

Clients == DOMAIN pc

\* ------------------------------------------------------------------ inputs
FormAlphabet == {SP, NL, "a"}
InstrAlphabet == {SP, "x"}

FormsOver(topics, instrs) ==
    {[f \in {"topic", "instructions"} |-> IF f = "topic" THEN t ELSE i] :
        t \in topics, i \in instrs}
    \cup {[f \in {"topic"} |-> t] : t \in topics}
    \cup {[f \in {"instructions"} |-> i] : i \in instrs}

\* Every form with fields of at most MaxFormLen pieces, a field possibly missing.
WideForms ==
    FormsOver(TextsUpTo(FormAlphabet, MaxFormLen), TextsUpTo(InstrAlphabet, MaxFormLen))

\* Two valid submissions with different topics, and one without a topic.
FewForms ==
    { [f \in {"topic", "instructions"} |-> IF f = "topic" THEN <<"a">> ELSE <<"x">>],
      [f \in {"topic"} |-> <<SP, "b">>],
      [f \in {"instructions"} |-> <<"x">>] }

\* request.form.get(key, default)
FormGet(f, key, default) == IF key \in DOMAIN f THEN f[key] ELSE default

\* ------------------------------------------------------------------- heap
\* The n smallest object ids not in use in h.
Alloc(h, n) ==
    LET free == (1..(Cardinality(DOMAIN h) + n)) \ DOMAIN h
        RECURSIVE pick(_, _)
        pick(S, k) ==
            IF k = 0 THEN <<>>
            ELSE LET m == CHOOSE a \in S : \A b \in S : a <= b
                 IN  <<m>> \o pick(S \ {m}, k - 1)
    IN  pick(free, n)

Range(s) == {s[i] : i \in 1..Len(s)}

Put(h, ids, objs) ==
    [i \in DOMAIN h \cup Range(ids) |->
        IF \E k \in 1..Len(ids) : ids[k] = i
        THEN objs[CHOOSE k \in 1..Len(ids) : ids[k] = i]
        ELSE h[i]]

Free(h, ids) == [i \in DOMAIN h \ ids |-> h[i]]

\* A variant in which the five agents are module-level objects every
\* ResearchExplorerCrew shares.
SharedAgentIds(h) == <<1, 2, 3, 4, 5>>

\* The ids ResearchExplorerCrew() gives its five Agent objects.
NewAgentIds(h) == Alloc(h, 5)

\* The ids build_crew gives its five Task objects and its Crew object.
NewTaskIds(h) == Alloc(h, 6)

\* The objects a client's request holds: its agents, its Crew object and the
\* tasks of that Crew.
TasksOf(r) == IF chain[r] = 0 THEN {} ELSE Range(heap[chain[r]].tasks)
ObjectsOf(r) == Range(crew[r]) \cup (IF chain[r] = 0 THEN {} ELSE {chain[r]}) \cup TasksOf(r)

\* --------------------------------------------------------------- responses
NoResponse == [kind |-> "none"]
IndexPage == [kind |-> "index.html"]
Redirect == [kind |-> "redirect", to |-> "index"]
ServerError == [kind |-> "error"]
ReportPage(t, i, res) ==
    [kind |-> "report.html", topic |-> t, instructions |-> i, result |-> res]

FlashWarning == <<"Please enter a research topic.", "danger">>

NoEngine == [next |-> 0, running |-> {}]

\* ------------------------------------------------------------------ index()
\* GET /: the input form.
Get(r) ==
    /\ pc[r] = "idle"
    /\ method' = [method EXCEPT ![r] = "GET"]
    /\ form' = [form EXCEPT ![r] = <<>>]
    /\ response' = [response EXCEPT ![r] = IndexPage]
    /\ flashed' = [flashed EXCEPT ![r] = <<>>]
    /\ runs' = [runs EXCEPT ![r] = 0]
    /\ UNCHANGED <<forms, variants, pc, topic, extra_instructions, crew, chain,
                   eng, result, heap, trace, arg_topic, built>>

\* A variant that reads the topic without stripping it.
form_topic_unstripped(f) == FormGet(f, "topic", <<>>)

\* topic = request.form.get("topic", "").strip()
form_topic(f) == Strip(FormGet(f, "topic", <<>>))

\* extra_instructions = request.form.get("instructions", "").strip()
form_instructions(f) == Strip(FormGet(f, "instructions", <<>>))

\* A variant of the test that lets every topic through.
not_topic_never(r) == FALSE

\* `if not topic`
not_topic(r) == topic[r] = <<>>

\* POST /: the two fields are read and stripped.
Post(r, f) ==
    /\ pc[r] = "idle"
    /\ f \in forms
    /\ method' = [method EXCEPT ![r] = "POST"]
    /\ form' = [form EXCEPT ![r] = f]
    /\ topic' = [topic EXCEPT ![r] = form_topic(f)]
    /\ extra_instructions' = [extra_instructions EXCEPT ![r] = form_instructions(f)]
    /\ pc' = [pc EXCEPT ![r] = "validating"]
    /\ response' = [response EXCEPT ![r] = NoResponse]
    /\ flashed' = [flashed EXCEPT ![r] = <<>>]
    /\ runs' = [runs EXCEPT ![r] = 0]
    /\ UNCHANGED <<forms, variants, crew, chain, eng, result, heap, trace, arg_topic, built>>

\* `if not topic`: flash and redirect.
Reject(r) ==
    /\ pc[r] = "validating"
    /\ not_topic(r)
    /\ flashed' = [flashed EXCEPT ![r] = Append(@, FlashWarning)]
    /\ response' = [response EXCEPT ![r] = Redirect]
    /\ pc' = [pc EXCEPT ![r] = "idle"]
    /\ UNCHANGED <<forms, variants, method, form, topic, extra_instructions, crew, chain, eng,
                   result, heap, runs, trace, arg_topic, built>>

\* crew = ResearchExplorerCrew()
Construct(r) ==
    /\ pc[r] = "validating"
    /\ ~not_topic(r)
    /\ LET ids == NewAgentIds(heap)
       IN  /\ heap' = Put(heap, ids, NewAgents)
           /\ crew' = [crew EXCEPT ![r] = ids]
    /\ pc' = [pc EXCEPT ![r] = "constructed"]
    /\ UNCHANGED <<forms, variants, method, form, topic, extra_instructions, chain, eng, result,
                   response, flashed, runs, trace, arg_topic, built>>

\* crew.run(topic=topic, instructions=extra_instructions), to its call of kickoff().
RunBuild(r) ==
    /\ pc[r] = "constructed"
    /\ runs' = [runs EXCEPT ![r] = @ + 1]
    /\ LET ids == NewTaskIds(heap)
           b   == build_crew(crew[r], topic[r], extra_instructions[r], SubSeq(ids, 1, 5))
       IN  /\ heap' = Put(heap, ids, b.tasks \o <<b.crew>>)
           /\ chain' = [chain EXCEPT ![r] = ids[6]]
    /\ eng' = [eng EXCEPT ![r] = [next |-> 1, running |-> {}]]
    /\ trace' = [trace EXCEPT ![r] = <<>>]
    /\ pc' = [pc EXCEPT ![r] = "kickoff"]
    /\ UNCHANGED <<forms, variants, method, form, topic, extra_instructions, crew, result,
                   response, flashed, arg_topic, built>>

\* ------------------------------------------------------- crew.kickoff()
\* The engine takes the next task of the Crew's list and sends its description,
\* with the outputs of its context tasks, to the hosted model.
TaskStart(r) ==
    /\ pc[r] = "kickoff"
    /\ eng[r].running = {}
    /\ eng[r].next <= Len(heap[chain[r]].tasks)
    /\ LET tid == heap[chain[r]].tasks[eng[r].next]
           t   == heap[tid]
       IN  /\ eng' = [eng EXCEPT ![r].running = {tid}]
           /\ trace' = [trace EXCEPT ![r] = Append(@,
                  [task |-> tid, description |-> t.description,
                   context |-> [k \in 1..Len(t.context) |-> heap[t.context[k]].output],
                   output |-> <<>>])]
    /\ UNCHANGED <<forms, variants, pc, method, form, topic, extra_instructions, crew, chain,
                   result, response, flashed, heap, runs, arg_topic, built>>

\* The hosted model answers: the answer becomes the task's output.
TaskFinish(r, v) ==
    /\ pc[r] = "kickoff"
    /\ eng[r].running # {}
    /\ v \in variants
    /\ LET tid == CHOOSE t \in eng[r].running : TRUE
           cur == trace[r][Len(trace[r])]
           out == [prompt |-> cur.description, context |-> cur.context, variant |-> v]
       IN  /\ heap' = [heap EXCEPT ![tid].output = <<out>>]
           /\ trace' = [trace EXCEPT ![r][Len(trace[r])].output = <<out>>]
    /\ eng' = [eng EXCEPT ![r] = [next |-> @.next + 1, running |-> {}]]
    /\ UNCHANGED <<forms, variants, pc, method, form, topic, extra_instructions, crew, chain,
                   result, response, flashed, runs, arg_topic, built>>

\* A variant that catches the engine's failure and returns what the tasks
\* completed so far produced.
TaskFailSalvage(r) ==
    /\ pc[r] = "kickoff"
    /\ eng[r].running # {}
    /\ result' = [result EXCEPT ![r] =
           <<[full_markdown |-> [k \in 1..(Len(trace[r]) - 1) |-> trace[r][k].output]]>>]
    /\ heap' = Free(heap, TasksOf(r) \cup {chain[r]})
    /\ chain' = [chain EXCEPT ![r] = 0]
    /\ eng' = [eng EXCEPT ![r] = NoEngine]
    /\ pc' = [pc EXCEPT ![r] = "rendering"]
    /\ UNCHANGED <<forms, variants, method, form, topic, extra_instructions, crew,
                   response, flashed, runs, trace, arg_topic, built>>

\* The engine raises (model call failure, timeout, malformed response): neither
\* run() nor index() catches, so the request ends in a server error.
TaskFail(r) ==
    /\ pc[r] = "kickoff"
    /\ eng[r].running # {}
    /\ pc' = [pc EXCEPT ![r] = "failed"]
    /\ response' = [response EXCEPT ![r] = ServerError]
    /\ heap' = Free(heap, ObjectsOf(r))
    /\ crew' = [crew EXCEPT ![r] = <<>>]
    /\ chain' = [chain EXCEPT ![r] = 0]
    /\ eng' = [eng EXCEPT ![r] = NoEngine]
    /\ UNCHANGED <<forms, variants, method, form, topic, extra_instructions, result, flashed,
                   runs, trace, arg_topic, built>>

\* What kickoff() returns once every task of the list has run: the CrewOutput,
\* whose raw text is the output of the last task of the list.
CrewOutput(r) ==
    LET ts == heap[chain[r]].tasks
    IN  [kind |-> "CrewOutput", raw |-> heap[ts[Len(ts)]].output[1],
         tasks_output |-> [k \in 1..Len(ts) |-> heap[ts[k]].output[1]]]

\* str(CrewOutput): its raw text.
PyStr(o) == o.raw

\* A variant that returns the outputs of all the tasks.
run_result_all(result_markdown) == [full_markdown |-> result_markdown.tasks_output]

\* return {"full_markdown": str(result_markdown)}
run_result(result_markdown) == [full_markdown |-> PyStr(result_markdown)]

\* kickoff() returns, run() returns, and result is assigned in index().
RunReturn(r) ==
    /\ pc[r] = "kickoff"
    /\ eng[r].running = {}
    /\ eng[r].next > Len(heap[chain[r]].tasks)
    /\ result' = [result EXCEPT ![r] = <<run_result(CrewOutput(r))>>]
    /\ heap' = Free(heap, TasksOf(r) \cup {chain[r]})
    /\ chain' = [chain EXCEPT ![r] = 0]
    /\ eng' = [eng EXCEPT ![r] = NoEngine]
    /\ pc' = [pc EXCEPT ![r] = "rendering"]
    /\ UNCHANGED <<forms, variants, method, form, topic, extra_instructions, crew, response,
                   flashed, runs, trace, arg_topic, built>>

\* A variant that renders the fields as submitted.
report_page_raw(r) ==
    ReportPage(FormGet(form[r], "topic", <<>>), FormGet(form[r], "instructions", <<>>),
               result[r][1])

\* The page index() renders: render_template("report.html", topic=topic,
\* instructions=extra_instructions, result=result).
report_page(r) == ReportPage(topic[r], extra_instructions[r], result[r][1])

Render(r) ==
    /\ pc[r] = "rendering"
    /\ response' = [response EXCEPT ![r] = report_page(r)]
    /\ heap' = Free(heap, Range(crew[r]))
    /\ crew' = [crew EXCEPT ![r] = <<>>]
    /\ pc' = [pc EXCEPT ![r] = "responded"]
    /\ UNCHANGED <<forms, variants, method, form, topic, extra_instructions, chain, eng, result,
                   flashed, runs, trace, arg_topic, built>>

\* ------------------------------------------------- build_crew on its own
BuildTopics == TextsUpTo(FormAlphabet, MaxLen)
BuildInstructions == TextsUpTo(InstrAlphabet, MaxInstrLen)

BuildCall(i) ==
    /\ i \in BuildInstructions
    /\ i \notin DOMAIN built
    /\ Cardinality(DOMAIN built) < MaxCalls
    /\ LET self == NewAgentIds(<<>>)
           h    == Put(<<>>, self, NewAgents)
           ids  == NewTaskIds(h)
           b    == build_crew(self, arg_topic, i, SubSeq(ids, 1, 5))
           new  == [heap |-> Put(h, ids, b.tasks \o <<b.crew>>), crew |-> ids[6]]
       IN  built' = [j \in DOMAIN built \cup {i} |-> IF j = i THEN new ELSE built[j]]
    /\ UNCHANGED <<forms, variants, pc, method, form, topic, extra_instructions, crew, chain, eng,
                   result, response, flashed, heap, runs, trace, arg_topic>>

\* The state of the Web Request Handler a client's request is in.
HandlerState(r) ==
    CASE pc[r] = "idle" -> "AwaitingInput"
      [] pc[r] = "validating" -> "Validating"
      [] pc[r] \in {"constructed", "kickoff"} -> "Orchestrating"
      [] pc[r] \in {"rendering", "responded"} -> "Rendering"
      [] pc[r] = "failed" -> "Failed"

\* --------------------------------------------------------- specifications
InitClients(n, fs, vs) ==
    /\ forms = fs
    /\ variants = vs
    /\ pc = [r \in 1..n |-> "idle"]
    /\ method = [r \in 1..n |-> ""]
    /\ form = [r \in 1..n |-> <<>>]
    /\ topic = [r \in 1..n |-> <<>>]
    /\ extra_instructions = [r \in 1..n |-> <<>>]
    /\ crew = [r \in 1..n |-> <<>>]
    /\ chain = [r \in 1..n |-> 0]
    /\ eng = [r \in 1..n |-> NoEngine]
    /\ result = [r \in 1..n |-> <<>>]
    /\ response = [r \in 1..n |-> NoResponse]
    /\ flashed = [r \in 1..n |-> <<>>]
    /\ heap = <<>>
    /\ runs = [r \in 1..n |-> 0]
    /\ trace = [r \in 1..n |-> <<>>]
    /\ built = <<>>

Next ==
    \/ \E r \in Clients : Get(r)
    \/ \E r \in Clients : \E f \in forms : Post(r, f)
    \/ \E r \in Clients : Reject(r)
    \/ \E r \in Clients : Construct(r)
    \/ \E r \in Clients : RunBuild(r)
    \/ \E r \in Clients : TaskStart(r)
    \/ \E r \in Clients : \E v \in variants : TaskFinish(r, v)
    \/ \E r \in Clients : TaskFail(r)
    \/ \E r \in Clients : RunReturn(r)
    \/ \E r \in Clients : Render(r)

\* Concurrently served requests.
Init == InitClients(NumReq, FewForms, {1}) /\ arg_topic = <<>>
Spec == Init /\ [][Next]_vars

\* One request at a time, every form.
InitForms == InitClients(1, WideForms, {1}) /\ arg_topic = <<>>
SpecForms == InitForms /\ [][Next]_vars

\* One request at a time, every answer of the hosted model.
InitAnswers == InitClients(1, FewForms, 1..MaxOut) /\ arg_topic = <<>>
SpecAnswers == InitAnswers /\ [][Next]_vars

\* build_crew applied to one topic and up to MaxCalls instructions values.
InitBuild == InitClients(0, {}, {}) /\ arg_topic \in BuildTopics
NextBuild == \E i \in BuildInstructions : BuildCall(i)
SpecBuild == InitBuild /\ [][NextBuild]_vars

\* ================================================================ claims
\* ---------------------------------------------------- build_crew (SpecBuild)
AgentRoles ==
    <<"Topic Decomposer", "Information Collector", "Report Writer",
      "Presentation Designer", "PPT Content Writer">>

\* The position of task id t in the chain (0: not in it).
PosIn(ts, t) == IF \E k \in 1..Len(ts) : ts[k] = t
                THEN CHOOSE k \in 1..Len(ts) : ts[k] = t ELSE 0

\* The tasks of built chain b, in chain order.
ChainIds(b) == b.heap[b.crew].tasks
ChainTasks(b) == [k \in 1..Len(ChainIds(b)) |-> b.heap[ChainIds(b)[k]]]
Descriptions(b) == [k \in 1..Len(ChainIds(b)) |-> ChainTasks(b)[k].description]

\* The upstream contexts of chain b, each as the chain positions it refers to,
\* by position of the referring task in the chain.
ContextPositions(b) ==
    [k \in 1..Len(ChainIds(b)) |->
        [j \in 1..Len(ChainTasks(b)[k].context) |->
            PosIn(ChainIds(b), ChainTasks(b)[k].context[j])]]

\* C2: every chain built has exactly five tasks, in the order decomposition,
\* collection, report, outline, full_content (the tasks of the five agents in
\* that order), with contexts none, [decomposition], [decomposition,
\* collection], [report] and [outline, report]; every context reference points
\* to a strictly earlier task of the chain.
C2_ChainShape ==
    \A i \in DOMAIN built :
        LET b == built[i]
        IN  /\ Len(ChainIds(b)) = 5
            /\ Cardinality(Range(ChainIds(b))) = 5
            /\ \A k \in 1..5 :
                   /\ ChainTasks(b)[k].kind = "Task"
                   /\ b.heap[ChainTasks(b)[k].agent].role = AgentRoles[k]
            /\ ContextPositions(b) = <<(<<>>), <<1>>, <<1, 2>>, <<3>>, <<4, 3>>>>
            /\ \A k \in 1..5 : \A j \in 1..Len(ChainTasks(b)[k].context) :
                   /\ ContextPositions(b)[k][j] >= 1
                   /\ ContextPositions(b)[k][j] < k

C2_Witness ==
    \E i \in DOMAIN built : arg_topic # <<>> /\ Strip(arg_topic) = arg_topic /\ i # <<>>

NoLineBreak(t) == \A k \in 1..Len(t) : t[k] # NL

\* C8 as claimed: every one of the five descriptions contains the topic verbatim.
C8_EveryDescriptionEmbedsTopic ==
    \A i \in DOMAIN built : \A k \in 1..5 :
        Contains(Descriptions(built[i])[k], arg_topic)

\* C8, amended: the decomposition and report descriptions embed the topic raw,
\* between their quotation marks, for every topic without a line break; the
\* collection, outline and full_content descriptions are fixed texts that are
\* the same for every topic.
C8_TopicEmbeddedInTwo ==
    \A i \in DOMAIN built :
        LET d == Descriptions(built[i])
        IN  /\ NoLineBreak(arg_topic) =>
                   /\ d[1] = <<NL, "Break the topic \"">> \o arg_topic
                             \o <<"\" into 4-6 subtopics with explanations.", NL, NL,
                                  "# Topic Decomposition", NL>>
                   /\ d[3] = <<NL, "Write a complete mini-report for the topic: \"">>
                             \o arg_topic \o <<"\".", NL>>
                   /\ Contains(d[1], arg_topic)
                   /\ Contains(d[3], arg_topic)
            /\ d[2] = <<NL, "Using 'Topic Decomposition', provide definitions, methods, pros/cons.",
                        NL, "# Collected Information", NL>>
            /\ Head(Tail(d[4])) = "Convert the full mini-report into a slide-wise outline"
            /\ Head(Tail(d[5])) =
                   "Using the 'Presentation Outline', expand each slide into complete content."
            /\ \A k \in {2, 4, 5} : \A c \in FormAlphabet \ {SP, NL} : ~Contains(d[k], <<c>>)
            /\ \A j \in DOMAIN built : \A k \in {2, 4, 5} :
                   Descriptions(built[j])[k] = d[k]

C8_Witness ==
    \E i \in DOMAIN built :
        /\ NoLineBreak(arg_topic)
        /\ Len(arg_topic) >= 2
        /\ Head(arg_topic) = SP
        /\ ~Contains(Descriptions(built[i])[2], arg_topic)

\* C9: the chain is a function of the topic alone: chains built from the same
\* topic are identical whatever the instructions, and neither the instructions
\* nor the default note "No extra instructions." appears in any description.
C9_ChainIgnoresInstructions ==
    \A i \in DOMAIN built : \A j \in DOMAIN built :
        /\ built[i] = built[j]
        /\ \A k \in 1..5 :
               /\ ~Contains(Descriptions(built[i])[k], <<"No extra instructions.">>)
               /\ \A c \in InstrAlphabet \ {SP} :
                      ~Contains(Descriptions(built[i])[k], <<c>>)

C9_Witness ==
    \E i \in DOMAIN built : \E j \in DOMAIN built :
        /\ extra_note(i) = <<"No extra instructions.">>
        /\ extra_note(j) # extra_note(i)
        /\ arg_topic # <<>>

\* ------------------------------------------------------ index() (SpecForms)
BlankTopic(f) == "topic" \notin DOMAIN f \/ \A k \in 1..Len(f.topic) : IsBlank(f.topic[k])

\* t is s without its leading and trailing whitespace.
IsTrimOf(s, t) ==
    /\ t = <<>> \/ (~IsBlank(t[1]) /\ ~IsBlank(t[Len(t)]))
    /\ \E a \in 0..Len(s) :
           /\ a + Len(t) <= Len(s)
           /\ t = SubSeq(s, a + 1, a + Len(t))
           /\ \A k \in 1..Len(s) : (k <= a \/ k > a + Len(t)) => IsBlank(s[k])

\* C1: a POST whose topic field is missing, empty or whitespace only is only
\* ever validated and rejected: run is never invoked for it, no agent or task
\* is created, no report page is rendered, and it ends with the warning
\* flashed and a redirect to the form.
C1_BlankTopicRejected ==
    \A r \in Clients :
        (method[r] = "POST" /\ BlankTopic(form[r])) =>
            /\ runs[r] = 0
            /\ pc[r] \in {"validating", "idle"}
            /\ crew[r] = <<>> /\ chain[r] = 0 /\ trace[r] = <<>>
            /\ response[r].kind # "report.html"
            /\ pc[r] = "idle" => (response[r] = Redirect /\ flashed[r] = <<FlashWarning>>)

C1_Witness ==
    \E r \in Clients :
        /\ method[r] = "POST"
        /\ "topic" \in DOMAIN form[r] /\ form[r].topic # <<>> /\ BlankTopic(form[r])
        /\ pc[r] = "idle"
        /\ response[r] = Redirect

\* C7 as claimed: the report page carries the topic and the instructions as
\* submitted and the result run returned.
C7_RenderedAsSubmitted ==
    \A r \in Clients :
        response[r].kind = "report.html" =>
            /\ response[r].topic = FormGet(form[r], "topic", <<>>)
            /\ response[r].instructions = FormGet(form[r], "instructions", <<>>)
            /\ response[r].result = result[r][1]

\* C7, amended: every POST with a topic that is not blank, once run has
\* returned and the page is rendered, gets the report page with the topic and
\* the instructions stripped of leading and trailing whitespace and the
\* result run returned, verbatim.
C7_RenderedTrimmed ==
    \A r \in Clients :
        /\ pc[r] = "responded" => response[r].kind = "report.html"
        /\ response[r].kind = "report.html" =>
               /\ ~BlankTopic(form[r])
               /\ IsTrimOf(form[r].topic, response[r].topic)
               /\ IsTrimOf(FormGet(form[r], "instructions", <<>>), response[r].instructions)
               /\ response[r].result = result[r][1]
               /\ response[r].result.full_markdown = trace[r][Len(trace[r])].output[1]

C7_Witness ==
    \E r \in Clients :
        /\ response[r].kind = "report.html"
        /\ Len(form[r].topic) > 1
        /\ IsBlank(form[r].topic[1])
        /\ response[r].topic # form[r].topic
        /\ "instructions" \in DOMAIN form[r]
        /\ response[r].instructions # form[r].instructions

\* ------------------------------------------------------- run (SpecAnswers)
\* The descriptions of the chain for a topic, in chain order.
ExpectedDescriptions(t) ==
    <<topic_description(t, <<>>), info_description(t, <<>>), report_description(t, <<>>),
      ppt_outline_description(t, <<>>), ppt_content_description(t, <<>>)>>

\* C3: once the engine has run to completion, the result run returns has the
\* one key full_markdown, whose value is exactly the output of the fifth task
\* (full_content) and none of the outputs of tasks 1 to 4.
C3_ResultIsFinalOutput ==
    \A r \in Clients :
        result[r] # <<>> =>
            /\ DOMAIN result[r][1] = {"full_markdown"}
            /\ Len(trace[r]) = 5
            /\ trace[r][5].description = ppt_content_description(topic[r], <<>>)
            /\ result[r][1].full_markdown = trace[r][5].output[1]
            /\ \A k \in 1..4 : result[r][1].full_markdown # trace[r][k].output[1]

C3_Witness ==
    \E r \in Clients :
        /\ pc[r] = "rendering"
        /\ result[r] # <<>>
        /\ trace[r][5].output[1].variant = 2
        /\ trace[r][4].output[1].variant = 1

\* ------------------------------------------------------------ Spec
Allowed ==
    { <<"AwaitingInput", "Validating">>, <<"Validating", "Orchestrating">>,
      <<"Orchestrating", "Rendering">>, <<"Validating", "AwaitingInput">> }

\* What holds of a step that moves client r's request from state a to state b.
StepGuards(r, a, b) ==
    /\ b = "Validating" => method'[r] = "POST"
    /\ b = "Orchestrating" =>
           /\ a = "Validating"
           /\ topic[r] # <<>>
           /\ IsTrimOf(FormGet(form[r], "topic", <<>>), topic[r])
    /\ b = "Rendering" => a = "Orchestrating" /\ Len(trace[r]) = 5
    /\ (a = "Validating" /\ b = "AwaitingInput") => topic[r] = <<>>

\* C4 as claimed: every request starts in AwaitingInput and moves only along
\* AwaitingInput -> Validating, Validating -> Orchestrating -> Rendering and
\* Validating -> AwaitingInput.
C4_OnlyFourStates ==
    /\ \A r \in Clients : HandlerState(r) = "AwaitingInput"
    /\ [][\A r \in Clients :
            \/ HandlerState(r)' = HandlerState(r)
            \/ /\ <<HandlerState(r), HandlerState(r)'>> \in Allowed
               /\ StepGuards(r, HandlerState(r), HandlerState(r)')]_vars

\* C4, amended: as claimed, with one more transition: Orchestrating -> Failed
\* when the engine raises, Failed being terminal like Rendering.
C4_WithFailure ==
    /\ \A r \in Clients : HandlerState(r) = "AwaitingInput"
    /\ [][\A r \in Clients :
            \/ HandlerState(r)' = HandlerState(r)
            \/ /\ <<HandlerState(r), HandlerState(r)'>>
                      \in Allowed \cup {<<"Orchestrating", "Failed">>}
               /\ StepGuards(r, HandlerState(r), HandlerState(r)')]_vars

C4_Witness ==
    \E r \in Clients : \E q \in Clients :
        /\ pc[r] = "failed"
        /\ pc[q] = "failed"
        /\ method[r] = "POST"
        /\ topic[r] # form[r].topic
        /\ Len(trace[q]) = 5

\* A task of client r that was started, produced no output and is not running:
\* the engine failed on it.
FailedIn(r) ==
    \E k \in 1..Len(trace[r]) :
        /\ trace[r][k].output = <<>>
        /\ k < Len(trace[r]) \/ eng[r].running = {}

\* C5: when the engine fails on a task, the request ends in a server error:
\* run was invoked once, no task was executed twice or after the failure, no
\* result was returned, no page rendered, and nothing of the chain is kept.
C5_FailurePropagates ==
    \A r \in Clients :
        FailedIn(r) =>
            /\ pc[r] = "failed"
            /\ response[r] = ServerError
            /\ result[r] = <<>>
            /\ runs[r] = 1
            /\ trace[r][Len(trace[r])].output = <<>>
            /\ \A k \in 1..(Len(trace[r]) - 1) : trace[r][k].output # <<>>
            /\ \A j \in 1..Len(trace[r]) : \A k \in 1..Len(trace[r]) :
                   j # k => trace[r][j].description # trace[r][k].description
            /\ crew[r] = <<>> /\ chain[r] = 0

C5_Witness ==
    \E r \in Clients : FailedIn(r) /\ Len(trace[r]) = 3 /\ pc[r] = "failed"

\* C6: the five tasks of a request run one at a time, in chain order, each
\* once; a task starts only when every earlier task has produced its output,
\* and is given the outputs of its upstream tasks as context; a request that
\* completes made five model calls.
C6_Sequential ==
    \A r \in Clients :
        LET tr == trace[r]
            upstream == <<(<<>>), <<1>>, <<1, 2>>, <<3>>, <<4, 3>>>>
        IN  /\ Cardinality(eng[r].running) <= 1
            /\ Len(tr) <= 5
            /\ [k \in 1..Len(tr) |-> tr[k].description]
                   = SubSeq(ExpectedDescriptions(topic[r]), 1, Len(tr))
            /\ \A k \in 1..Len(tr) :
                   /\ Len(tr[k].context) = Len(upstream[k])
                   /\ \A j \in 1..Len(tr[k].context) :
                          /\ tr[k].context[j] # <<>>
                          /\ tr[k].context[j] = tr[upstream[k][j]].output
                   /\ k < Len(tr) => tr[k].output # <<>>
                   /\ \A j \in 1..Len(tr) : j # k => tr[j].task # tr[k].task
            /\ eng[r].running # {} =>
                   /\ eng[r].running = {tr[Len(tr)].task}
                   /\ tr[Len(tr)].output = <<>>
            /\ pc[r] \in {"rendering", "responded"} =>
                   /\ Len(tr) = 5
                   /\ \A k \in 1..5 : tr[k].output # <<>>

C6_Witness ==
    \E r \in Clients :
        /\ eng[r].running # {}
        /\ Len(trace[r]) = 5
        /\ Len(trace[r][5].context) = 2

\* C10: the objects of two requests in flight are disjoint, each request has
\* five agents and five tasks of its own, the only live objects are those of
\* requests in flight, a step changes no object of a request other than the
\* one taking it, and the report page a request gets carries the result of the
\* chain built from its own topic.
C10_NothingShared ==
    /\ [](\A r \in Clients :
            /\ \A q \in Clients \ {r} : ObjectsOf(r) \cap ObjectsOf(q) = {}
            /\ ObjectsOf(r) \subseteq DOMAIN heap
            /\ pc[r] \in {"constructed", "kickoff", "rendering"} =>
                   Cardinality(Range(crew[r])) = 5
            /\ pc[r] = "kickoff" => Cardinality(TasksOf(r)) = 5
            /\ pc[r] \in {"idle", "validating", "responded", "failed"} => ObjectsOf(r) = {}
            /\ response[r].kind = "report.html" =>
                   /\ response[r].topic = topic[r]
                   /\ response[r].result.full_markdown.context[2][1].context[1][1].prompt
                          = topic_description(topic[r], <<>>))
    /\ [](DOMAIN heap = UNION {ObjectsOf(r) : r \in Clients})
    /\ [][\A r \in Clients : \A o \in ObjectsOf(r) :
            (o \notin DOMAIN heap' \/ heap'[o] # heap[o]) =>
                (pc'[r] # pc[r] \/ eng'[r] # eng[r])]_vars

C10_Witness ==
    \E r \in Clients : \E q \in Clients :
        /\ response[r].kind = "report.html"
        /\ pc[q] = "kickoff"
        /\ eng[q].running # {}
        /\ topic[q] # topic[r]
====
